---- MODULE Spec2Model ----
(***************************************************************************)
(* Tic-Tac-Toe engine (engine.py), alpha-beta search (minimax.py), the     *)
(* controllers (controller.py, agent.py), Monte Carlo tree search (mcts.py)*)
(* and the turn-taking driver (game.py) as a state machine.                *)
(*                                                                         *)
(* GameState objects live in a heap (reference -> GameStateData), so that  *)
(* deepcopy/clone and in-place mutation by apply_action are distinguished. *)
(***************************************************************************)
EXTENDS Integers, Sequences, FiniteSets, TLC

VARIABLES heap,          \* reference -> GameStateData of every live GameState
          new_state,     \* reference of the successor held by the caller, 0 = None
          current_turn,  \* GameController.current_turn (1 or 2)
          call,          \* the last call made: operation, arguments, outcome
          num_moves,     \* GameController.num_moves
          move_history,  \* GameController.move_history, a list of Action
          players,       \* GameController.player1 and player2, by controller variant
          nodes,         \* the Node objects of the search tree, by node id
          search         \* the running monte_carlo_tree_search call, its locals

vars == <<heap, new_state, current_turn, call, num_moves, move_history, players,
         nodes, search>>

\* the fields of the GameController besides the model and the turn
game_vars == <<num_moves, move_history, players>>

\* the search tree and the search that builds it
mcts_vars == <<nodes, search>>

----------------------------------------------------------------------------
(* Bounds of the exploration *)

\* number of further moves the caller applies to a held successor
MaxLater == 1

\* number of EMPTY cells up to which select_move is followed call by call
MaxSearched == 4

\* number of direct calls of mcts_expand on the root before a search
MaxDirect == 1

\* the largest number of iterations asked of monte_carlo_tree_search
MaxIterations == 1

\* number of EMPTY cells up to which mcts_simulate is called directly
MaxRollout == 4

\* number of Node objects up to which mcts_expand is called on any node
MaxNodes == 3

\* number of direct calls of mcts_backpropagate
MaxBackprops == 2

----------------------------------------------------------------------------
(* engine.py : data *)

EMPTY == 0
PLAYER_A == 1
PLAYER_B == 2

Pos == 0..8

\* arguments tried for Action.pos and Action.agent (valid and invalid ones)
PosArgs == -1..9
AgentArgs == 0..2

\* GameStateData.winning_combinations
winning_combinations ==
  << <<0, 1, 2>>, <<3, 4, 5>>, <<6, 7, 8>>,
     <<0, 3, 6>>, <<1, 4, 7>>, <<2, 5, 8>>,
     <<0, 4, 8>>, <<2, 4, 6>> >>

\* GameStateData.__init__ without prev_state
GameStateData ==
  [squares |-> [i \in Pos |-> EMPTY], win |-> FALSE, lose |-> FALSE, tie |-> FALSE]

\* the GameState the game is played on (GameController.model)
state == 1

None == 0

----------------------------------------------------------------------------
(* engine.py : GameState methods, on the data of one object *)

is_win(d) == d.win
is_lose(d) == d.lose
is_tie(d) == d.tie

is_game_over(d) == is_win(d) \/ is_lose(d) \/ is_tie(d)

\* [squares[idx] for idx in indices] == [m, m, m]
Triple(sq, indices, m) == \A j \in 1..3 : sq[indices[j]] = m

\* update that leaves the last winning combination out
update_seven_lines(d) ==
  [d EXCEPT
     !.win  = @ \/ \E k \in 1..(Len(winning_combinations) - 1) :
                       Triple(d.squares, winning_combinations[k], 1),
     !.lose = @ \/ \E k \in 1..(Len(winning_combinations) - 1) :
                       Triple(d.squares, winning_combinations[k], 2),
     !.tie  = @ \/ \A i \in Pos : d.squares[i] # 0]

\* GameState.update: flags are only ever set, never cleared
update(d) ==
  [d EXCEPT
     !.win  = @ \/ \E k \in 1..Len(winning_combinations) :
                       Triple(d.squares, winning_combinations[k], 1),
     !.lose = @ \/ \E k \in 1..Len(winning_combinations) :
                       Triple(d.squares, winning_combinations[k], 2),
     !.tie  = @ \/ \A i \in Pos : d.squares[i] # 0]

\* the comprehension with the test mark != 1
EmptyCells_not_player_a(sq) == SelectSeq(<<0, 1, 2, 3, 4, 5, 6, 7, 8>>, LAMBDA i : sq[i] # 1)

\* [i for i, mark in enumerate(squares) if mark == 0]
EmptyCells(sq) == SelectSeq(<<0, 1, 2, 3, 4, 5, 6, 7, 8>>, LAMBDA i : sq[i] = 0)

\* get_legal_moves without the terminal check
get_legal_moves_ignoring_outcome(d) == EmptyCells(d.squares)

\* GameState.get_legal_moves
get_legal_moves(d) ==
  IF is_win(d) \/ is_lose(d) \/ is_tie(d) THEN <<>> ELSE EmptyCells(d.squares)

\* apply_action without the assertion that the cell is empty
apply_action_overwriting(d, agent, pos) ==
  IF ~(pos >= 0 /\ pos <= 8) THEN [raised |-> "AssertionError", data |-> d]
  ELSE IF agent \notin {0, 1} THEN [raised |-> "AssertionError", data |-> d]
  ELSE [raised |-> "none",
        data |-> update([d EXCEPT !.squares[pos] = agent + 1])]

\* GameState.apply_action: the three assertions in order, then the write and update
apply_action(d, agent, pos) ==
  IF ~(pos >= 0 /\ pos <= 8) THEN [raised |-> "AssertionError", data |-> d]
  ELSE IF agent \notin {0, 1} THEN [raised |-> "AssertionError", data |-> d]
  ELSE IF d.squares[pos] # 0 THEN [raised |-> "AssertionError", data |-> d]
  ELSE [raised |-> "none",
        data |-> update([d EXCEPT !.squares[pos] = agent + 1])]

----------------------------------------------------------------------------
(* engine.py : methods that create objects, on the heap *)

\* the reference a newly created object gets
NewRef(h) == CHOOSE r \in 1..(Cardinality(DOMAIN h) + 1) : r \notin DOMAIN h

\* objects no variable refers to any more are collected
Live(h, keep) == [x \in (DOMAIN h) \cap keep |-> h[x]]

\* clone that returns the receiver itself
clone_alias(h, r) == [heap |-> h, ref |-> r]

\* GameState.clone: deepcopy, a new object with equal data
clone(h, r) ==
  LET n == NewRef(h)
  IN  [heap |-> [x \in DOMAIN h \cup {n} |-> IF x = n THEN h[r] ELSE h[x]],
       ref |-> n]

\* generate_successor without the terminal check
generate_successor_unchecked(h, r, agent, pos) ==
  LET c == clone(h, r)
      a == apply_action(c.heap[c.ref], agent, pos)
  IN  IF a.raised # "none"
      THEN [raised |-> a.raised, heap |-> h, ref |-> None]
      ELSE [raised |-> "none",
            heap |-> [c.heap EXCEPT ![c.ref] = a.data],
            ref |-> c.ref]

\* GameState.generate_successor
generate_successor(h, r, agent, pos) ==
  IF is_game_over(h[r])
  THEN [raised |-> "Exception", heap |-> h, ref |-> None]
  ELSE LET c == clone(h, r)
           a == apply_action(c.heap[c.ref], agent, pos)
       IN  IF a.raised # "none"
           THEN [raised |-> a.raised, heap |-> h, ref |-> None]
           ELSE [raised |-> "none",
                 heap |-> [c.heap EXCEPT ![c.ref] = a.data],
                 ref |-> c.ref]

\* the list of successors built in descending move order
RECURSIVE SuccessorsFrom_reversed(_, _, _, _, _)
SuccessorsFrom_reversed(h, r, agent, moves, i) ==
  IF i > Len(moves) THEN [raised |-> "none", heap |-> h, refs |-> <<>>]
  ELSE LET s == generate_successor(h, r, agent, moves[i])
       IN  IF s.raised # "none"
           THEN [raised |-> s.raised, heap |-> h, refs |-> <<>>]
           ELSE LET rest == SuccessorsFrom_reversed(s.heap, r, agent, moves, i + 1)
                IN  IF rest.raised # "none"
                    THEN [raised |-> rest.raised, heap |-> h, refs |-> <<>>]
                    ELSE [raised |-> "none", heap |-> rest.heap,
                          refs |-> rest.refs \o <<s.ref>>]

\* the list comprehension of generate_successors over the moves from index i on
RECURSIVE SuccessorsFrom(_, _, _, _, _)
SuccessorsFrom(h, r, agent, moves, i) ==
  IF i > Len(moves) THEN [raised |-> "none", heap |-> h, refs |-> <<>>]
  ELSE LET s == generate_successor(h, r, agent, moves[i])
       IN  IF s.raised # "none"
           THEN [raised |-> s.raised, heap |-> h, refs |-> <<>>]
           ELSE LET rest == SuccessorsFrom(s.heap, r, agent, moves, i + 1)
                IN  IF rest.raised # "none"
                    THEN [raised |-> rest.raised, heap |-> h, refs |-> <<>>]
                    ELSE [raised |-> "none", heap |-> rest.heap,
                          refs |-> <<s.ref>> \o rest.refs]

\* GameState.generate_successors
generate_successors(h, r, agent) ==
  SuccessorsFrom(h, r, agent, get_legal_moves(h[r]), 1)

----------------------------------------------------------------------------
(* minimax.py *)

\* np.inf: every value of the search lies in -1..1
inf == 2

Max(a, b) == IF a >= b THEN a ELSE b
Min(a, b) == IF a <= b THEN a ELSE b

\* the data of the states generate_successors returns, in order
successor_data(d, agent) ==
  LET moves == get_legal_moves(d)
  IN  [i \in 1..Len(moves) |-> apply_action(d, agent, moves[i]).data]

RECURSIVE minimax(_, _, _, _)
RECURSIVE MaxLoop(_, _, _, _, _)
RECURSIVE MinLoop(_, _, _, _, _)

\* the max_p loop with the cutoff tested against alpha
RECURSIVE MaxLoop_alpha_cutoff(_, _, _, _, _)
MaxLoop_alpha_cutoff(succ, i, v, alpha, beta) ==
  IF i > Len(succ) THEN v
  ELSE LET v2 == Max(v, minimax(succ[i], alpha, beta, FALSE))
       IN  IF v2 >= alpha THEN v2
           ELSE MaxLoop_alpha_cutoff(succ, i + 1, v2, Max(alpha, v2), beta)

\* the for loop of the max_p branch, from successor i on
MaxLoop(succ, i, v, alpha, beta) ==
  IF i > Len(succ) THEN v
  ELSE LET v2 == Max(v, minimax(succ[i], alpha, beta, FALSE))
       IN  IF v2 >= beta THEN v2
           ELSE MaxLoop(succ, i + 1, v2, Max(alpha, v2), beta)

\* the for loop of the other branch, from successor i on
MinLoop(succ, i, v, alpha, beta) ==
  IF i > Len(succ) THEN v
  ELSE LET v2 == Min(v, minimax(succ[i], alpha, beta, TRUE))
       IN  IF v2 <= alpha THEN v2
           ELSE MinLoop(succ, i + 1, v2, alpha, Min(beta, v2))

minimax(d, alpha, beta, max_p) ==
  IF is_win(d) THEN 1
  ELSE IF is_lose(d) THEN -1
  ELSE IF is_tie(d) THEN 0
  ELSE IF max_p THEN MaxLoop(successor_data(d, 0), 1, -inf, alpha, beta)
  ELSE MinLoop(successor_data(d, 1), 1, inf, alpha, beta)

alpha_beta_search(d, max_p) == minimax(d, -inf, inf, max_p)

----------------------------------------------------------------------------
(* minimax.py, as the calls one search makes *)

\* one call of minimax: its recursion depth, its max_p, the flags of its
\* state, whether it asked the state for its successors, the value returned
MinimaxCall(depth, max_p, d, generated, v) ==
  [depth |-> depth, max_p |-> max_p, win |-> is_win(d), lose |-> is_lose(d),
   tie |-> is_tie(d), generated |-> generated, v |-> v]

\* the result of a call that made the calls of res below it
Returned(res, depth, max_p, d) ==
  [res EXCEPT !.calls = @ \cup {MinimaxCall(depth, max_p, d, TRUE, res.v)}]

\* The search on the object r of heap h. Its result holds the value, the
\* exception generate_successors raised ("none" if none) and the calls made,
\* this one included. The successors of a call die with the call.
RECURSIVE minimax_calls(_, _, _, _, _, _)
RECURSIVE MaxLoop_calls(_, _, _, _, _, _, _, _)
RECURSIVE MinLoop_calls(_, _, _, _, _, _, _, _)

\* the max_p loop handing its own flag down
MaxLoop_calls_same_flag(h, refs, i, v, alpha, beta, depth, acc) ==
  IF i > Len(refs) THEN [v |-> v, raised |-> "none", calls |-> acc]
  ELSE LET c == minimax_calls(Live(h, {refs[i]}), refs[i], alpha, beta, TRUE, depth + 1)
           v2 == Max(v, c.v)
       IN  IF c.raised # "none"
           THEN [v |-> v, raised |-> c.raised, calls |-> acc \cup c.calls]
           ELSE IF v2 >= beta
           THEN [v |-> v2, raised |-> "none", calls |-> acc \cup c.calls]
           ELSE MaxLoop_calls(h, refs, i + 1, v2, Max(alpha, v2), beta, depth,
                              acc \cup c.calls)

\* the for loop of the max_p branch, from successor i on
MaxLoop_calls(h, refs, i, v, alpha, beta, depth, acc) ==
  IF i > Len(refs) THEN [v |-> v, raised |-> "none", calls |-> acc]
  ELSE LET c == minimax_calls(Live(h, {refs[i]}), refs[i], alpha, beta, FALSE, depth + 1)
           v2 == Max(v, c.v)
       IN  IF c.raised # "none"
           THEN [v |-> v, raised |-> c.raised, calls |-> acc \cup c.calls]
           ELSE IF v2 >= beta
           THEN [v |-> v2, raised |-> "none", calls |-> acc \cup c.calls]
           ELSE MaxLoop_calls(h, refs, i + 1, v2, Max(alpha, v2), beta, depth,
                              acc \cup c.calls)

\* the for loop of the other branch, from successor i on
MinLoop_calls(h, refs, i, v, alpha, beta, depth, acc) ==
  IF i > Len(refs) THEN [v |-> v, raised |-> "none", calls |-> acc]
  ELSE LET c == minimax_calls(Live(h, {refs[i]}), refs[i], alpha, beta, TRUE, depth + 1)
           v2 == Min(v, c.v)
       IN  IF c.raised # "none"
           THEN [v |-> v, raised |-> c.raised, calls |-> acc \cup c.calls]
           ELSE IF v2 <= alpha
           THEN [v |-> v2, raised |-> "none", calls |-> acc \cup c.calls]
           ELSE MinLoop_calls(h, refs, i + 1, v2, alpha, Min(beta, v2), depth,
                              acc \cup c.calls)

\* minimax without the three tests of a terminal state
minimax_calls_no_shortcut(h, r, alpha, beta, max_p, depth) ==
  LET g == generate_successors(h, r, IF max_p THEN 0 ELSE 1)
  IN  IF g.raised # "none"
      THEN Returned([v |-> 0, raised |-> g.raised, calls |-> {}], depth, max_p, h[r])
      ELSE IF max_p
      THEN Returned(MaxLoop_calls(g.heap, g.refs, 1, -inf, alpha, beta, depth, {}),
                    depth, max_p, h[r])
      ELSE Returned(MinLoop_calls(g.heap, g.refs, 1, inf, alpha, beta, depth, {}),
                    depth, max_p, h[r])

minimax_calls(h, r, alpha, beta, max_p, depth) ==
  IF is_win(h[r])
  THEN [v |-> 1, raised |-> "none",
        calls |-> {MinimaxCall(depth, max_p, h[r], FALSE, 1)}]
  ELSE IF is_lose(h[r])
  THEN [v |-> -1, raised |-> "none",
        calls |-> {MinimaxCall(depth, max_p, h[r], FALSE, -1)}]
  ELSE IF is_tie(h[r])
  THEN [v |-> 0, raised |-> "none",
        calls |-> {MinimaxCall(depth, max_p, h[r], FALSE, 0)}]
  ELSE LET g == generate_successors(h, r, IF max_p THEN 0 ELSE 1)
       IN  IF g.raised # "none"
           THEN Returned([v |-> 0, raised |-> g.raised, calls |-> {}], depth, max_p, h[r])
           ELSE IF max_p
           THEN Returned(MaxLoop_calls(g.heap, g.refs, 1, -inf, alpha, beta, depth, {}),
                         depth, max_p, h[r])
           ELSE Returned(MinLoop_calls(g.heap, g.refs, 1, inf, alpha, beta, depth, {}),
                         depth, max_p, h[r])

\* alpha_beta_search with its calls
alpha_beta_search_calls(h, r, max_p) == minimax_calls(h, r, -inf, inf, max_p, 0)

----------------------------------------------------------------------------
(* controller.py, agent.py *)

\* action.pos in state.get_legal_moves()
IsLegalMove(d, pos) ==
  LET moves == get_legal_moves(d)
  IN  \E i \in 1..Len(moves) : moves[i] = pos

\* an Action as the move history holds it
Action(agent, pos) == [agent |-> agent, pos |-> pos]

\* the body of process_inputs without the test of the chosen position
process_inputs_unchecked(d, hist, agent, pos) ==
  LET a == apply_action(d, agent, pos)
  IN  [data |-> a.data,
       move_history |-> IF hist # <<>> THEN Append(hist, Action(agent, pos)) ELSE hist,
       raised |-> a.raised]

\* the body every process_inputs shares once its controller has chosen pos:
\* "if move_history:" is true of a non-empty list only, and the action is
\* appended before apply_action runs
process_inputs(d, hist, agent, pos) ==
  IF IsLegalMove(d, pos)
  THEN LET a == apply_action(d, agent, pos)
       IN  [data |-> a.data,
            move_history |-> IF hist # <<>> THEN Append(hist, Action(agent, pos)) ELSE hist,
            raised |-> a.raised]
  ELSE [data |-> d, move_history |-> hist, raised |-> "none"]

RECURSIVE SelectLoop(_, _, _, _, _, _)

\* the loop of select_move replacing the incumbent on an equal value
RECURSIVE SelectLoop_last_equal(_, _, _, _, _, _)
SelectLoop_last_equal(d, index, moves, i, best_value, best_pos) ==
  IF i > Len(moves) THEN best_pos
  ELSE LET successor == apply_action(d, index, moves[i]).data
           value == alpha_beta_search(successor, index = 1)
       IN  IF (index = 0 /\ value >= best_value) \/ (index # 0 /\ value <= best_value)
           THEN SelectLoop_last_equal(d, index, moves, i + 1, value, moves[i])
           ELSE SelectLoop_last_equal(d, index, moves, i + 1, best_value, best_pos)

\* the for loop of MinimaxController.select_move from legal move i on; the
\* search receives the index as its max_p, true for index 1 only
SelectLoop(d, index, moves, i, best_value, best_pos) ==
  IF i > Len(moves) THEN best_pos
  ELSE LET successor == apply_action(d, index, moves[i]).data
           value == alpha_beta_search(successor, index = 1)
       IN  IF (index = 0 /\ value > best_value) \/ (index # 0 /\ value < best_value)
           THEN SelectLoop(d, index, moves, i + 1, value, moves[i])
           ELSE SelectLoop(d, index, moves, i + 1, best_value, best_pos)

\* select_move without a search: the first legal move
select_move_first_legal(d, index) ==
  IF get_legal_moves(d) = <<>> THEN -1 ELSE get_legal_moves(d)[1]

\* MinimaxController.select_move: the position of the action returned
select_move(d, index) ==
  SelectLoop(d, index, get_legal_moves(d), 1, IF index = 0 THEN -inf ELSE inf, -1)

\* the positions HumanController.get_inputs produces: -1 without a click on a
\* cell, else the cell inside_case found
get_inputs == -1..8

\* an agent choosing among all positions, legal or not
get_action_any(d) == {[raised |-> "none", pos |-> p] : p \in PosArgs}

\* RandomAgent.get_action: random.choice of the legal moves, IndexError on none
get_action(d) ==
  IF get_legal_moves(d) = <<>>
  THEN {[raised |-> "IndexError", pos |-> -1]}
  ELSE {[raised |-> "none", pos |-> get_legal_moves(d)[i]] :
          i \in 1..Len(get_legal_moves(d))}

\* the controller variants: a human, an AgentController around the RandomAgent,
\* one around any other Agent, and the minimax player
Controllers == {"human", "random", "agent", "minimax"}

\* the controllers get_controller_from_option of run.py makes
GamePlayers == {"human", "random", "minimax"}

\* those of them that need no input
AutoPlayers == {"random", "minimax"}

\* the outcomes of choosing a position, by controller variant
ChosenPositions(kind, d, index) ==
  CASE kind = "human" -> {[raised |-> "none", pos |-> p] : p \in get_inputs}
    [] kind = "random" -> get_action(d)
    [] kind = "agent" -> {[raised |-> "none", pos |-> p] : p \in PosArgs}
    [] kind = "minimax" -> {[raised |-> "none", pos |-> select_move(d, index)]}

\* the for loop of select_move on the object r of heap h, search by search:
\* the position chosen, the exception raised and the calls of all searches
RECURSIVE SelectLoop_calls(_, _, _, _, _, _, _, _)
SelectLoop_calls(h, r, index, moves, i, best_value, best_pos, acc) ==
  IF i > Len(moves) THEN [pos |-> best_pos, raised |-> "none", calls |-> acc]
  ELSE LET g == generate_successor(Live(h, {r}), r, index, moves[i])
       IN  IF g.raised # "none" THEN [pos |-> best_pos, raised |-> g.raised, calls |-> acc]
           ELSE LET c == alpha_beta_search_calls(Live(g.heap, {g.ref}), g.ref, index = 1)
                IN  IF c.raised # "none"
                    THEN [pos |-> best_pos, raised |-> c.raised, calls |-> acc \cup c.calls]
                    ELSE IF (index = 0 /\ c.v > best_value) \/ (index # 0 /\ c.v < best_value)
                    THEN SelectLoop_calls(h, r, index, moves, i + 1, c.v, moves[i],
                                          acc \cup c.calls)
                    ELSE SelectLoop_calls(h, r, index, moves, i + 1, best_value, best_pos,
                                          acc \cup c.calls)

\* MinimaxController.select_move with the calls of its searches
select_move_calls(h, r, index) ==
  SelectLoop_calls(h, r, index, get_legal_moves(h[r]), 1,
                   IF index = 0 THEN -inf ELSE inf, -1, {})

\* the heap the for loop of select_move leaves to its caller: each round calls
\* state.generate_successor on the object r and hands the successor alone to
\* the search; the successor dies with its round
RECURSIVE SelectLoop_heap(_, _, _, _, _)
SelectLoop_heap(h, r, index, moves, i) ==
  IF i > Len(moves) THEN h
  ELSE LET g == generate_successor(Live(h, {r}), r, index, moves[i])
       IN  IF g.raised # "none" THEN [h EXCEPT ![r] = g.heap[r]]
           ELSE SelectLoop_heap([h EXCEPT ![r] = g.heap[r]], r, index, moves, i + 1)

----------------------------------------------------------------------------
(* mcts.py *)

\* the pos of a Node made without one (the root)
NonePos == -2

\* a Node that counts its creation as a visit
Node_visited(st, parent, pos) ==
  [state |-> st, parent |-> parent, children |-> <<>>, visits |-> 1, wins |-> 0,
   pos |-> pos]

\* Node.__init__: ns is the sequence of all Node objects, a node is its index
Node(st, parent, pos) ==
  [state |-> st, parent |-> parent, children |-> <<>>, visits |-> 0, wins |-> 0,
   pos |-> pos]

\* Node.add_child
add_child(ns, n, child_state, pos) ==
  [nodes |-> Append([ns EXCEPT ![n].children = Append(@, Len(ns) + 1)],
                    Node(child_state, n, pos)),
   child |-> Len(ns) + 1]

\* Node.is_fully_expanded
is_fully_expanded(h, ns, n) == is_game_over(h[ns[n].state])

\* mcts_expand taking the last legal move
mcts_expand_last_move(h, ns, n, index) ==
  LET moves == get_legal_moves(h[ns[n].state])
  IN  IF moves = <<>>
      THEN [raised |-> "Exception", heap |-> h, nodes |-> ns, child |-> None]
      ELSE LET g == generate_successor(h, ns[n].state, index, moves[Len(moves)])
           IN  IF g.raised # "none"
               THEN [raised |-> g.raised, heap |-> h, nodes |-> ns, child |-> None]
               ELSE LET a == add_child(ns, n, g.ref, moves[Len(moves)])
                    IN  [raised |-> "none", heap |-> g.heap, nodes |-> a.nodes,
                         child |-> a.child]

\* mcts_expand: the loop returns in its first round, so only the first legal
\* move is ever expanded; without a legal move the loop is skipped and the
\* function raises
mcts_expand(h, ns, n, index) ==
  LET moves == get_legal_moves(h[ns[n].state])
  IN  IF moves = <<>>
      THEN [raised |-> "Exception", heap |-> h, nodes |-> ns, child |-> None]
      ELSE LET g == generate_successor(h, ns[n].state, index, moves[1])
           IN  IF g.raised # "none"
               THEN [raised |-> g.raised, heap |-> h, nodes |-> ns, child |-> None]
               ELSE LET a == add_child(ns, n, g.ref, moves[1])
                    IN  [raised |-> "none", heap |-> g.heap, nodes |-> a.nodes,
                         child |-> a.child]

\* current_state.evaluate(): GameState defines no method evaluate, the call
\* raises AttributeError on every state
evaluate(d) == [raised |-> "AttributeError", result |-> 0]

\* the while loop of mcts_simulate from the object cur on, one playout per
\* sequence of random.choice results: each round rebinds current_state to a
\* new successor, the objects of keep are those the caller still holds;
\* made is the list of the actions played so far
RECURSIVE Playouts(_, _, _, _, _)
Playouts(h, keep, cur, index, made) ==
  IF is_game_over(h[cur])
  THEN {[raised |-> "none", heap |-> h, ref |-> cur, made |-> made]}
  ELSE UNION {LET move == get_legal_moves(h[cur])[i]
                  g == generate_successor(h, cur, index, move)
              IN  IF g.raised # "none"
                  THEN {[raised |-> g.raised, heap |-> h, ref |-> cur, made |-> made]}
                  ELSE Playouts(Live(g.heap, keep \cup {g.ref}), keep, g.ref,
                                IF index = 0 THEN 1 ELSE 1,
                                Append(made, Action(index, move))) :
                i \in 1..Len(get_legal_moves(h[cur]))}

\* mcts_simulate on the object r: the outcomes of its playouts, with the heap
\* the caller is left with, the actions played and the data of the state the
\* playout ended in
mcts_simulate(h, r, start_index) ==
  LET c == clone(h, r)
  IN  {LET e == evaluate(p.heap[p.ref])
       IN  [raised |-> IF p.raised # "none" THEN p.raised ELSE e.raised,
            result |-> e.result,
            heap |-> Live(p.heap, DOMAIN h),
            made |-> p.made,
            end |-> p.heap[p.ref]] :
         p \in Playouts(c.heap, DOMAIN h, c.ref, start_index, <<>>)}

\* the walk to the parent stopping below the root
RECURSIVE mcts_backpropagate_below_root(_, _, _)
mcts_backpropagate_below_root(ns, n, result) ==
  IF ns[n].parent = None THEN ns
  ELSE mcts_backpropagate_below_root(
         [ns EXCEPT ![n].visits = @ + 1,
                    ![n].wins = IF result = 1 THEN @ + 1
                                ELSE IF result = -1 THEN @ - 1 ELSE @],
         ns[n].parent, result)

\* mcts_backpropagate
RECURSIVE mcts_backpropagate(_, _, _)
mcts_backpropagate(ns, n, result) ==
  IF n = None THEN ns
  ELSE mcts_backpropagate(
         [ns EXCEPT ![n].visits = @ + 1,
                    ![n].wins = IF result = 1 THEN @ + 1
                                ELSE IF result = -1 THEN @ - 1 ELSE @],
         ns[n].parent, result)

\* the loop of best_child(c=0) from child i on. The score of a child is
\* wins/visits + 0 * sqrt(log(self.visits)/visits): the division raises on a
\* child without a visit; log(0) makes the score nan, which beats nothing.
\* best is the node held so far, None while best_score is -inf.
RECURSIVE BestLoop(_, _, _, _)
BestLoop(ns, n, i, best) ==
  IF i > Len(ns[n].children) THEN [raised |-> "none", node |-> IF best = None THEN n ELSE best]
  ELSE LET ch == ns[n].children[i]
       IN  IF ns[ch].visits = 0 THEN [raised |-> "ZeroDivisionError", node |-> None]
           ELSE IF ns[n].visits = 0 THEN BestLoop(ns, n, i + 1, best)
           ELSE IF best = None
                   \/ ns[ch].wins * ns[best].visits > ns[best].wins * ns[ch].visits
           THEN BestLoop(ns, n, i + 1, ch)
           ELSE BestLoop(ns, n, i + 1, best)

\* Node.best_child(c=0), the final choice
best_child(ns, n) == BestLoop(ns, n, 1, None)

\* Node.best_child(c) with c > 0: the exploration term is irrational, the
\* descent is left open among the children and the node itself
best_child_uct(ns, n) ==
  {[raised |-> "none", node |-> m] : m \in {n} \cup {ns[n].children[i] : i \in 1..Len(ns[n].children)}}
    \cup {[raised |-> "ZeroDivisionError", node |-> None] : i \in
             {j \in 1..Len(ns[n].children) : ns[ns[n].children[j]].visits = 0}}

\* no search is running
NoSearch ==
  [pc |-> "idle", node |-> None, i |-> 0, iterations |-> 0, index |-> 0,
   ret |-> None, raised |-> "none"]

----------------------------------------------------------------------------
(* game.py *)

\* result testing is_tie first
GameController_result_tie_first(d) ==
  IF is_game_over(d)
  THEN IF is_tie(d) THEN [raised |-> "none", v |-> 0]
       ELSE IF is_win(d) THEN [raised |-> "none", v |-> 1]
       ELSE IF is_lose(d) THEN [raised |-> "none", v |-> -1]
       ELSE [raised |-> "ValueError", v |-> 0]
  ELSE [raised |-> "ValueError", v |-> 0]

\* GameController.result on the data of the model
GameController_result(d) ==
  IF is_game_over(d)
  THEN IF is_win(d) THEN [raised |-> "none", v |-> 1]
       ELSE IF is_lose(d) THEN [raised |-> "none", v |-> -1]
       ELSE IF is_tie(d) THEN [raised |-> "none", v |-> 0]
       ELSE [raised |-> "ValueError", v |-> 0]
  ELSE [raised |-> "ValueError", v |-> 0]

----------------------------------------------------------------------------
(* The record of the last call *)

NoCall ==
  [op |-> "init", recv |-> None, agent |-> 0, pos |-> 0, raised |-> "none",
   moves |-> <<>>, refs |-> <<>>, max_p |-> FALSE, v |-> 0,
   kind |-> "none", applied |-> FALSE, given |-> <<>>, history |-> <<>>,
   calls |-> {}, made |-> <<>>, end |-> GameStateData]

Init ==
  /\ heap = [x \in {state} |-> GameStateData]
  /\ new_state = None
  /\ current_turn = 1
  /\ call = NoCall
  /\ num_moves = 0
  /\ move_history = <<>>
  /\ players = <<>>
  /\ nodes = <<>>
  /\ search = NoSearch

\* no exception has propagated: an uncaught AssertionError or Exception ends the run
Running == call.raised = "none"

\* one iteration of game_loop with a controller that chose the legal position pos:
\* process_inputs applies Action(index, pos), the turn passes to the other player
Play(pos) ==
  /\ Running
  /\ call.op # "process_inputs"
  /\ nodes = <<>>
  /\ ~is_game_over(heap[state])
  /\ \E i \in 1..Len(get_legal_moves(heap[state])) : get_legal_moves(heap[state])[i] = pos
  /\ LET a == apply_action(heap[state], current_turn - 1, pos)
     IN  /\ heap' = [x \in {state} |-> a.data]
         /\ call' = [NoCall EXCEPT !.op = "apply_action", !.recv = state,
                                   !.agent = current_turn - 1, !.pos = pos,
                                   !.raised = a.raised]
  /\ current_turn' = IF current_turn = 1 THEN 2 ELSE 1
  /\ num_moves' = num_moves + 1
  /\ move_history' = process_inputs(heap[state], move_history, current_turn - 1, pos).move_history
  /\ new_state' = None
  /\ UNCHANGED <<players, mcts_vars>>

\* the caller holds no successor and its last call was a move (or none yet):
\* it inspects the state once between two moves
Idle == Running /\ new_state = None /\ call.op \in {"init", "apply_action"}

\* a direct call state.apply_action(Action(agent, pos)) with any arguments
ApplyAction(agent, pos) ==
  /\ Running
  /\ LET a == apply_action(heap[state], agent, pos)
     IN  /\ heap' = [x \in {state} |-> a.data]
         /\ call' = [NoCall EXCEPT !.op = "apply_action", !.recv = state,
                                   !.agent = agent, !.pos = pos,
                                   !.raised = a.raised]
  /\ new_state' = None
  /\ UNCHANGED <<current_turn, game_vars, mcts_vars>>

\* state.get_legal_moves()
GetLegalMoves ==
  /\ Idle
  /\ call' = [NoCall EXCEPT !.op = "get_legal_moves", !.recv = state,
                            !.moves = get_legal_moves(heap[state])]
  /\ heap' = Live(heap, {state})
  /\ UNCHANGED <<new_state, current_turn, game_vars, mcts_vars>>

\* new_state = state.generate_successor(Action(agent, pos)) with any arguments
GenerateSuccessor(agent, pos) ==
  /\ Idle
  /\ LET g == generate_successor(Live(heap, {state}), state, agent, pos)
     IN  /\ heap' = Live(g.heap, {state, g.ref})
         /\ new_state' = g.ref
         /\ call' = [NoCall EXCEPT !.op = "generate_successor", !.recv = state,
                                   !.agent = agent, !.pos = pos,
                                   !.raised = g.raised,
                                   !.refs = IF g.ref = None THEN <<>> ELSE <<g.ref>>]
  /\ UNCHANGED <<current_turn, game_vars, mcts_vars>>

\* the number of non-EMPTY cells
Occupied(sq) == Cardinality({i \in Pos : sq[i] # EMPTY})

\* new_state.apply_action(Action(agent, pos)): a later move on a held successor
\* that continues the game, by the player whose turn it is on the successor
LaterMove(agent, pos) ==
  /\ Running
  /\ new_state # None
  /\ agent = 1 - call.agent
  /\ agent = Occupied(heap[new_state].squares) % 2
  /\ Occupied(heap[new_state].squares) - Occupied(heap[state].squares) <= MaxLater
  /\ heap[new_state].squares[pos] = EMPTY
  /\ LET a == apply_action(heap[new_state], agent, pos)
     IN  /\ heap' = [Live(heap, {state, new_state}) EXCEPT ![new_state] = a.data]
         /\ call' = [NoCall EXCEPT !.op = "apply_action", !.recv = new_state,
                                   !.agent = agent, !.pos = pos,
                                   !.raised = a.raised]
  /\ UNCHANGED <<new_state, current_turn, game_vars, mcts_vars>>

\* state.generate_successors(agent)
GenerateSuccessors(agent) ==
  /\ Idle
  /\ LET g == generate_successors(Live(heap, {state}), state, agent)
     IN  /\ heap' = g.heap
         /\ call' = [NoCall EXCEPT !.op = "generate_successors", !.recv = state,
                                   !.agent = agent, !.raised = g.raised,
                                   !.refs = g.refs]
  /\ UNCHANGED <<new_state, current_turn, game_vars, mcts_vars>>

\* alpha_beta_search(state, max_p)
AlphaBetaSearch(max_p) ==
  /\ Idle
  /\ call' = [NoCall EXCEPT !.op = "alpha_beta_search", !.recv = state,
                            !.max_p = max_p,
                            !.v = alpha_beta_search(heap[state], max_p)]
  /\ UNCHANGED <<heap, new_state, current_turn, game_vars, mcts_vars>>

\* MinimaxController(index).select_move(state)
SelectMove(index) ==
  /\ Idle
  /\ call' = [NoCall EXCEPT !.op = "select_move", !.recv = state, !.agent = index,
                            !.pos = select_move(heap[state], index)]
  /\ UNCHANGED <<heap, new_state, current_turn, game_vars, mcts_vars>>

\* MinimaxController(index).select_move(state), followed search by search
SelectMoveCalls(index) ==
  /\ Idle
  /\ Cardinality({i \in Pos : heap[state].squares[i] = EMPTY}) <= MaxSearched
  /\ LET s == select_move_calls(heap, state, index)
     IN  call' = [NoCall EXCEPT !.op = "select_move_calls", !.recv = state,
                               !.agent = index, !.pos = s.pos, !.raised = s.raised,
                               !.calls = s.calls]
         /\ heap' = SelectLoop_heap(heap, state, index, get_legal_moves(heap[state]), 1)
  /\ UNCHANGED <<new_state, current_turn, game_vars, mcts_vars>>

\* GameController.result()
Result ==
  /\ Running
  /\ call.op # "result"
  /\ call' = [NoCall EXCEPT !.op = "result", !.recv = state,
                            !.raised = GameController_result(heap[state]).raised,
                            !.v = GameController_result(heap[state]).v]
  /\ UNCHANGED <<heap, new_state, current_turn, game_vars, mcts_vars>>

\* game.result() once game.game_loop() has returned
GameResult ==
  /\ players # <<>>
  /\ is_game_over(heap[state])
  /\ Result

\* a list the caller keeps that already holds an action
SeededHistory == <<Action(0, 0)>>

\* a direct call controller.process_inputs(state, hist) of a controller of
\* variant kind and the given index, with the list of the game or a list of
\* the caller's own
ProcessInputs(kind, index) ==
  /\ Idle
  /\ \E o \in ChosenPositions(kind, heap[state], index),
        hist \in {move_history, SeededHistory} :
       IF o.raised # "none"
       THEN /\ call' = [NoCall EXCEPT !.op = "process_inputs", !.recv = state,
                                      !.kind = kind, !.agent = index, !.pos = o.pos,
                                      !.raised = o.raised, !.given = hist,
                                      !.history = hist]
            /\ UNCHANGED heap
       ELSE LET r == process_inputs(heap[state], hist, index, o.pos)
            IN  /\ heap' = [x \in {state} |-> r.data]
                /\ call' = [NoCall EXCEPT !.op = "process_inputs", !.recv = state,
                                          !.kind = kind, !.agent = index, !.pos = o.pos,
                                          !.raised = r.raised,
                                          !.applied = IsLegalMove(heap[state], o.pos),
                                          !.given = hist, !.history = r.move_history]
  /\ UNCHANGED <<new_state, current_turn, game_vars, mcts_vars>>

\* GameController(model, player1, player2) with player1 of index 0 and
\* player2 of index 1
NewGame(kind1, kind2) ==
  /\ call.op = "init"
  /\ players = <<>>
  /\ players' = <<kind1, kind2>>
  /\ current_turn' = 1
  /\ num_moves' = 0
  /\ move_history' = <<>>
  /\ call' = [NoCall EXCEPT !.op = "GameController"]
  /\ UNCHANGED <<heap, new_state, mcts_vars>>

\* one iteration of the while loop of game_loop; the record keeps the
\* position only of a move that changed the board
GameLoop ==
  /\ Running
  /\ players # <<>>
  /\ ~is_game_over(heap[state])
  /\ \E o \in ChosenPositions(players[current_turn], heap[state], current_turn - 1) :
       IF o.raised # "none"
       THEN /\ call' = [NoCall EXCEPT !.op = "game_loop", !.recv = state,
                                      !.kind = players[current_turn],
                                      !.agent = current_turn - 1, !.pos = o.pos,
                                      !.raised = o.raised]
            /\ UNCHANGED <<heap, current_turn, num_moves, move_history>>
       ELSE LET prev_state == clone(heap, state)
                r == process_inputs(prev_state.heap[state], move_history,
                                    current_turn - 1, o.pos)
                after == [prev_state.heap EXCEPT ![state] = r.data]
                changed == after[state].squares # after[prev_state.ref].squares
            IN  /\ heap' = Live(after, {state})
                /\ move_history' = r.move_history
                /\ current_turn' = IF ~changed THEN current_turn
                                   ELSE IF current_turn = 1 THEN 2 ELSE 1
                /\ num_moves' = IF changed THEN num_moves + 1 ELSE num_moves
                /\ call' = [NoCall EXCEPT !.op = "game_loop", !.recv = state,
                                          !.kind = players[current_turn],
                                          !.agent = current_turn - 1,
                                          !.pos = IF changed THEN o.pos ELSE -1,
                                          !.raised = r.raised, !.applied = changed]
  /\ UNCHANGED <<new_state, players, mcts_vars>>

\* root = Node(state=state): the root holds the state object itself
NewRoot ==
  /\ Idle
  /\ nodes = <<>>
  /\ nodes' = <<Node(state, None, NonePos)>>
  /\ call' = [NoCall EXCEPT !.op = "Node", !.recv = state]
  /\ heap' = Live(heap, {state})
  /\ UNCHANGED <<new_state, current_turn, game_vars, search>>

\* a direct call mcts_expand(root, index)
MctsExpand(index) ==
  /\ nodes # <<>>
  /\ search.pc = "idle"
  /\ Len(nodes[1].children) < MaxDirect
  /\ LET e == mcts_expand(heap, nodes, 1, index)
     IN  /\ heap' = e.heap
         /\ nodes' = e.nodes
         /\ call' = [NoCall EXCEPT !.op = "mcts_expand", !.recv = 1, !.agent = index,
                                   !.raised = e.raised, !.kind = "direct"]
  /\ UNCHANGED <<new_state, current_turn, game_vars, search>>

\* monte_carlo_tree_search(root, iterations, index, c) is entered
MonteCarloTreeSearch(iterations, index) ==
  /\ nodes # <<>>
  /\ search.pc = "idle"
  /\ call.raised = "none"
  /\ search' = [NoSearch EXCEPT !.pc = "for", !.iterations = iterations, !.index = index]
  /\ call' = [NoCall EXCEPT !.op = "monte_carlo_tree_search", !.recv = 1,
                            !.agent = index]
  /\ UNCHANGED <<heap, new_state, current_turn, game_vars, nodes>>

\* the for loop starts an iteration at the root
Iterate ==
  /\ search.pc = "for"
  /\ search.i < search.iterations
  /\ search' = [search EXCEPT !.pc = "while", !.node = 1]
  /\ UNCHANGED <<heap, new_state, current_turn, call, game_vars, nodes>>

\* one round of the while loop of the selection
Select ==
  /\ search.pc = "while"
  /\ ~is_game_over(heap[nodes[search.node].state])
  /\ IF ~is_fully_expanded(heap, nodes, search.node)
     THEN LET e == mcts_expand(heap, nodes, search.node, search.index)
          IN  /\ heap' = e.heap
              /\ nodes' = e.nodes
              /\ call' = [NoCall EXCEPT !.op = "mcts_expand", !.recv = search.node,
                                        !.agent = search.index, !.raised = e.raised,
                                        !.kind = "monte_carlo_tree_search"]
              /\ search' = IF e.raised = "none" THEN [search EXCEPT !.node = e.child]
                           ELSE [search EXCEPT !.pc = "raised", !.raised = e.raised]
     ELSE \E b \in best_child_uct(nodes, search.node) :
            /\ call' = [NoCall EXCEPT !.op = "best_child", !.recv = search.node,
                                      !.raised = b.raised,
                                      !.kind = "monte_carlo_tree_search"]
            /\ search' = IF b.raised = "none" THEN [search EXCEPT !.node = b.node]
                         ELSE [search EXCEPT !.pc = "raised", !.raised = b.raised]
            /\ UNCHANGED <<heap, nodes>>
  /\ UNCHANGED <<new_state, current_turn, game_vars>>

\* the rest of the iteration once the selection has reached a terminal node:
\* mcts_simulate, the change of sign for index 1, mcts_backpropagate
SimulateBackpropagate ==
  /\ search.pc = "while"
  /\ is_game_over(heap[nodes[search.node].state])
  /\ \E o \in mcts_simulate(heap, nodes[search.node].state, search.index) :
       /\ heap' = o.heap
       /\ IF o.raised # "none"
          THEN /\ search' = [search EXCEPT !.pc = "raised", !.raised = o.raised]
               /\ call' = [NoCall EXCEPT !.op = "mcts_simulate", !.recv = search.node,
                                         !.agent = search.index, !.raised = o.raised,
                                         !.made = o.made, !.end = o.end,
                                         !.kind = "monte_carlo_tree_search"]
               /\ UNCHANGED nodes
          ELSE LET result == IF search.index = 1 THEN -o.result ELSE o.result
               IN  /\ nodes' = mcts_backpropagate(nodes, search.node, result)
                   /\ search' = [search EXCEPT !.pc = "for", !.i = @ + 1]
                   /\ call' = [NoCall EXCEPT !.op = "mcts_backpropagate",
                                             !.recv = search.node, !.v = result,
                                             !.made = o.made, !.end = o.end,
                                             !.kind = "monte_carlo_tree_search"]
  /\ UNCHANGED <<new_state, current_turn, game_vars>>

\* a direct call mcts_expand(node, index) on any node of the tree
MctsExpandAt(n, index) ==
  /\ nodes # <<>>
  /\ search.pc = "idle"
  /\ call.raised = "none"
  /\ n \in 1..Len(nodes)
  /\ Len(nodes) < MaxNodes
  /\ LET e == mcts_expand(heap, nodes, n, index)
     IN  /\ heap' = e.heap
         /\ nodes' = e.nodes
         /\ call' = [NoCall EXCEPT !.op = "mcts_expand", !.recv = n, !.agent = index,
                                   !.raised = e.raised, !.kind = "direct"]
  /\ UNCHANGED <<new_state, current_turn, game_vars, search>>

\* a direct call mcts_backpropagate(node, result)
MctsBackpropagate(n, result) ==
  /\ nodes # <<>>
  /\ search.pc = "idle"
  /\ call.raised = "none"
  /\ n \in 1..Len(nodes)
  /\ nodes[1].visits < MaxBackprops
  /\ nodes' = mcts_backpropagate(nodes, n, result)
  /\ call' = [NoCall EXCEPT !.op = "mcts_backpropagate", !.recv = n, !.v = result,
                            !.kind = "direct"]
  /\ UNCHANGED <<heap, new_state, current_turn, game_vars, search>>

\* a direct call mcts_simulate(state, start_index) between two moves
MctsSimulate(start_index) ==
  /\ Idle
  /\ Cardinality({i \in Pos : heap[state].squares[i] = EMPTY}) <= MaxRollout
  /\ \E o \in mcts_simulate(heap, state, start_index) :
       /\ heap' = o.heap
       /\ call' = [NoCall EXCEPT !.op = "mcts_simulate", !.recv = state,
                                 !.agent = start_index, !.raised = o.raised,
                                 !.v = o.result, !.made = o.made, !.end = o.end,
                                 !.kind = "direct"]
  /\ UNCHANGED <<new_state, current_turn, game_vars, mcts_vars>>

\* return root.best_child(c=0) after the last iteration
Return ==
  /\ search.pc = "for"
  /\ search.i >= search.iterations
  /\ LET b == best_child(nodes, 1)
     IN  /\ search' = IF b.raised = "none" THEN [search EXCEPT !.pc = "done", !.ret = b.node]
                      ELSE [search EXCEPT !.pc = "raised", !.raised = b.raised]
         /\ call' = [NoCall EXCEPT !.op = "best_child", !.recv = 1, !.raised = b.raised,
                                   !.kind = "monte_carlo_tree_search"]
  /\ UNCHANGED <<heap, new_state, current_turn, game_vars, nodes>>

----------------------------------------------------------------------------
(* Specifications *)

\* the engine under legal alternating play, with successor generation
Next ==
  \/ \E pos \in Pos : Play(pos)
  \/ GetLegalMoves
  \/ \E agent \in AgentArgs, pos \in PosArgs : GenerateSuccessor(agent, pos)
  \/ \E agent \in {0, 1}, pos \in Pos : LaterMove(agent, pos)
  \/ \E agent \in {0, 1} : GenerateSuccessors(agent)

Spec == Init /\ [][Next]_vars

\* apply_action called directly with arbitrary arguments
NextApply ==
  \/ \E agent \in AgentArgs, pos \in PosArgs : ApplyAction(agent, pos)
  \/ GetLegalMoves

SpecApply == Init /\ [][NextApply]_vars

\* the search applied to every state of legal alternating play
NextSearch ==
  \/ \E pos \in Pos : Play(pos)
  \/ \E max_p \in BOOLEAN : AlphaBetaSearch(max_p)

SpecSearch == Init /\ [][NextSearch]_vars

\* the minimax player asked for its move in every state of legal alternating play
NextMinimax ==
  \/ \E pos \in Pos : Play(pos)
  \/ \E index \in {0, 1} : SelectMove(index)

SpecMinimax == Init /\ [][NextMinimax]_vars

\* the searches of the minimax player followed call by call
NextMinimaxCalls ==
  \/ \E pos \in Pos : Play(pos)
  \/ \E index \in {0, 1} : SelectMoveCalls(index)

SpecMinimaxCalls == Init /\ [][NextMinimaxCalls]_vars

\* process_inputs of every controller variant called in every state of legal
\* alternating play
NextController ==
  \/ \E pos \in Pos : Play(pos)
  \/ \E kind \in Controllers, index \in {0, 1} : ProcessInputs(kind, index)

SpecController == Init /\ [][NextController]_vars

\* game_loop with every pair of controllers
NextGame ==
  \/ \E kind1 \in GamePlayers, kind2 \in GamePlayers : NewGame(kind1, kind2)
  \/ GameLoop

SpecGame == Init /\ [][NextGame]_vars

\* the search tree of a state of legal alternating play
NextMCTS ==
  \/ \E pos \in Pos : Play(pos)
  \/ NewRoot
  \/ \E index \in {0, 1} : MctsExpand(index)
  \/ \E iterations \in 0..MaxIterations, index \in {0, 1} :
       MonteCarloTreeSearch(iterations, index)
  \/ Iterate
  \/ Select
  \/ SimulateBackpropagate
  \/ Return

SpecMCTS == Init /\ [][NextMCTS]_vars

\* a game between two automated players, run to its result
NextAutoGame ==
  \/ \E kind1 \in AutoPlayers, kind2 \in AutoPlayers : NewGame(kind1, kind2)
  \/ GameLoop
  \/ GameResult

SpecAutoGame == Init /\ [][NextAutoGame]_vars

\* the result asked of a model that any sequence of apply_action calls has made
NextResult ==
  \/ \E agent \in AgentArgs, pos \in PosArgs : ApplyAction(agent, pos)
  \/ Result

SpecResult == Init /\ [][NextResult]_vars

\* select_move of the minimax player and of the Monte Carlo player on the
\* states of legal alternating play
NextSelect ==
  \/ \E pos \in Pos : Play(pos)
  \/ \E index \in {0, 1} : SelectMoveCalls(index)
  \/ NewRoot
  \/ \E iterations \in 0..MaxIterations, index \in {0, 1} :
       MonteCarloTreeSearch(iterations, index)
  \/ Iterate
  \/ Select
  \/ SimulateBackpropagate
  \/ Return

SpecSelect == Init /\ [][NextSelect]_vars

\* a tree over the empty board built and updated call by call, then searched
NextTree ==
  \/ NewRoot
  \/ \E n \in 1..MaxNodes, index \in {0, 1} : MctsExpandAt(n, index)
  \/ \E n \in 1..MaxNodes, result \in {-1, 0, 1} : MctsBackpropagate(n, result)
  \/ \E iterations \in 0..MaxIterations, index \in {0, 1} :
       MonteCarloTreeSearch(iterations, index)
  \/ Iterate
  \/ Select
  \/ SimulateBackpropagate
  \/ Return

SpecTree == Init /\ [][NextTree]_vars

\* playouts from the states of legal alternating play
NextRollout ==
  \/ \E pos \in Pos : Play(pos)
  \/ \E start_index \in {0, 1} : MctsSimulate(start_index)

SpecRollout == Init /\ [][NextRollout]_vars

----------------------------------------------------------------------------
(* Notions the properties are stated with *)

\* player m owns a complete winning triple
HasTriple(sq, m) ==
  \E k \in 1..Len(winning_combinations) : Triple(sq, winning_combinations[k], m)

EmptySet(sq) == {i \in Pos : sq[i] = EMPTY}

Full(sq) == EmptySet(sq) = {}

\* the i-th smallest EMPTY cell
NthEmpty(sq, i) ==
  CHOOSE p \in EmptySet(sq) : Cardinality({q \in EmptySet(sq) : q < p}) = i - 1

Terminal(d) == d.win \/ d.lose \/ d.tie

\* the value of the game under optimal play, by exhaustive minimax
RECURSIVE GameValue(_, _)
GameValue(sq, max_p) ==
  IF HasTriple(sq, PLAYER_A) THEN 1
  ELSE IF HasTriple(sq, PLAYER_B) THEN -1
  ELSE IF Full(sq) THEN 0
  ELSE LET S == {GameValue([sq EXCEPT ![i] = IF max_p THEN PLAYER_A ELSE PLAYER_B], ~max_p) :
                   i \in EmptySet(sq)}
       IN  IF max_p THEN (IF 1 \in S THEN 1 ELSE IF 0 \in S THEN 0 ELSE -1)
           ELSE (IF -1 \in S THEN -1 ELSE IF 0 \in S THEN 0 ELSE 1)

----------------------------------------------------------------------------
(* Properties *)

\* C1: in every state reached by legal alternating play at most one of
\* is_win, is_lose, is_tie is true
C1_AtMostOneOutcome ==
  LET d == heap[state]
  IN  /\ ~(is_win(d) /\ is_lose(d))
      /\ ~(is_win(d) /\ is_tie(d))
      /\ ~(is_lose(d) /\ is_tie(d))

\* C2: is_tie is true if and only if no EMPTY cell remains and neither player
\* owns a complete winning triple
C2_TieIffFullWithoutTriple ==
  LET d == heap[state]
  IN  is_tie(d) <=> (/\ Full(d.squares)
                     /\ ~HasTriple(d.squares, PLAYER_A)
                     /\ ~HasTriple(d.squares, PLAYER_B))

\* C3: in every GameState object, is_win is true exactly when PLAYER_A owns a
\* winning triple and is_lose exactly when PLAYER_B owns one
C3_WinLoseIffTriple ==
  \A r \in DOMAIN heap :
    /\ is_win(heap[r]) <=> HasTriple(heap[r].squares, PLAYER_A)
    /\ is_lose(heap[r]) <=> HasTriple(heap[r].squares, PLAYER_B)

\* a successor whose move completed a PLAYER_A triple
C3_Witness ==
  /\ call.op = "generate_successor"
  /\ new_state # None
  /\ is_win(heap[new_state])
  /\ ~is_win(heap[state])

\* C4: get_legal_moves returns the empty sequence on a terminal state and
\* otherwise the EMPTY cells in strictly ascending order; after a successful
\* apply_action at p it does not contain p; on the empty board it is 0..8
C4_LegalMoves ==
  LET d == heap[state]
      m == get_legal_moves(d)
  IN  /\ call.op = "get_legal_moves" =>
           IF Terminal(d) THEN call.moves = <<>>
           ELSE /\ Len(call.moves) = Cardinality(EmptySet(d.squares))
                /\ \A i \in 1..Len(call.moves) : call.moves[i] = NthEmpty(d.squares, i)
      /\ (call.op = "apply_action" /\ call.raised = "none") =>
           \A i \in 1..Len(m) : m[i] # call.pos
      /\ Occupied(d.squares) = 0 => m = <<0, 1, 2, 3, 4, 5, 6, 7, 8>>

\* get_legal_moves was called on a terminal state that still has EMPTY cells
C4_Witness ==
  /\ call.op = "get_legal_moves"
  /\ Terminal(heap[state])
  /\ ~Full(heap[state].squares)

\* C5 as stated: the number of legal moves plus the number of occupied cells
\* is 9 in every reachable state, terminal or not
C5_LegalPlusOccupiedIsNine ==
  Len(get_legal_moves(heap[state])) + Occupied(heap[state].squares) = 9

\* C5 amended: the number of legal moves plus the number of occupied cells is 9
\* in every reachable non-terminal state; in a terminal state there is no
\* legal move
C5_LegalPlusOccupiedUnlessTerminal ==
  LET d == heap[state]
      n == Len(get_legal_moves(d))
  IN  IF Terminal(d) THEN n = 0 ELSE n + Occupied(d.squares) = 9

\* get_legal_moves was called in the middle of a game
C5_Witness ==
  /\ call.op = "get_legal_moves"
  /\ ~Terminal(heap[state])
  /\ Len(call.moves) = 4

\* C6: generate_successor on a non-terminal state with an EMPTY position returns
\* a new object that differs from the receiver in that cell only, the receiver
\* is unchanged by the call and by later moves on the successor
C6_SuccessorLeavesReceiver ==
  [][LET s == heap[state]
         a == call'.agent
         p == call'.pos
     IN  /\ ( /\ call'.op = "generate_successor"
              /\ ~Terminal(s)
              /\ a \in {0, 1}
              /\ p \in Pos
              /\ s.squares[p] = EMPTY )
             => /\ call'.raised = "none"
                /\ Len(call'.refs) = 1
                /\ new_state' = call'.refs[1]
                /\ new_state' # state
                /\ new_state' \in DOMAIN heap'
                /\ heap'[new_state'].squares = [s.squares EXCEPT ![p] = a + 1]
                /\ is_win(heap'[new_state']) <=> HasTriple(heap'[new_state'].squares, PLAYER_A)
                /\ is_lose(heap'[new_state']) <=> HasTriple(heap'[new_state'].squares, PLAYER_B)
                /\ is_tie(heap'[new_state']) => Full(heap'[new_state'].squares)
                /\ heap'[state] = s
         /\ (call'.op = "apply_action" /\ call'.recv # state) => heap'[state] = s
    ]_vars

\* a later move was applied to a held successor
C6_Witness ==
  /\ call.op = "apply_action"
  /\ new_state # None
  /\ call.recv = new_state
  /\ call.raised = "none"

\* C7: generate_successor on a terminal state raises for every action, returns
\* no state and leaves the receiver unchanged
C7_SuccessorOfTerminalRaises ==
  [][(call'.op = "generate_successor" /\ Terminal(heap[state]))
       => /\ call'.raised # "none"
          /\ call'.refs = <<>>
          /\ new_state' = None
          /\ heap' = heap
    ]_vars

\* generate_successor was called on a terminal state with a valid action on an
\* EMPTY cell
C7_Witness ==
  /\ call.op = "generate_successor"
  /\ Terminal(heap[state])
  /\ call.agent \in {0, 1}
  /\ call.pos \in Pos
  /\ heap[state].squares[call.pos] = EMPTY
  /\ call.raised = "Exception"

\* C8: apply_action fails exactly when the position is outside 0..8, the agent
\* is not 0 or 1, or the cell is not EMPTY; a failure changes nothing, a success
\* changes exactly the target cell to agent+1 and recomputes the flags
C8_ApplyActionContract ==
  [][call'.op = "apply_action" =>
       LET d == heap[call'.recv]
           e == heap'[call'.recv]
           a == call'.agent
           p == call'.pos
           invalid == \/ p \notin Pos
                      \/ a \notin {0, 1}
                      \/ d.squares[p] # EMPTY
       IN  /\ (call'.raised # "none") <=> invalid
           /\ invalid => e = d
           /\ ~invalid =>
                /\ e.squares = [d.squares EXCEPT ![p] = a + 1]
                /\ is_win(e) <=> HasTriple(e.squares, PLAYER_A)
                /\ is_lose(e) <=> HasTriple(e.squares, PLAYER_B)
                /\ is_tie(e) => Full(e.squares)
    ]_vars

\* apply_action was refused because the cell was occupied
C8_Witness ==
  /\ call.op = "apply_action"
  /\ call.raised = "AssertionError"
  /\ call.agent \in {0, 1}
  /\ call.pos \in Pos

\* C9: generate_successors returns one successor per legal move in ascending
\* position order, the i-th with the player's mark at the i-th legal position;
\* on a terminal state it returns the empty sequence without raising
C9_SuccessorsInMoveOrder ==
  call.op = "generate_successors" =>
    LET s == heap[state]
        refs == call.refs
    IN  /\ call.raised = "none"
        /\ IF Terminal(s) THEN refs = <<>>
           ELSE /\ Len(refs) = Cardinality(EmptySet(s.squares))
                /\ \A i \in 1..Len(refs) :
                     /\ refs[i] \in DOMAIN heap
                     /\ refs[i] # state
                     /\ \A j \in 1..Len(refs) : j # i => refs[j] # refs[i]
                     /\ heap[refs[i]].squares =
                          [s.squares EXCEPT ![NthEmpty(s.squares, i)] = call.agent + 1]
                     /\ is_win(heap[refs[i]]) <=> HasTriple(heap[refs[i]].squares, PLAYER_A)
                     /\ is_lose(heap[refs[i]]) <=> HasTriple(heap[refs[i]].squares, PLAYER_B)

\* generate_successors was called for player 1 in the middle of a game
C9_Witness ==
  /\ call.op = "generate_successors"
  /\ call.agent = 1
  /\ Len(call.refs) = 4
  /\ Occupied(heap[state].squares) = 5

\* C10: alpha_beta_search returns the value of exhaustive minimax for either
\* value of max_p, and 0 on the empty board
C10_PruningKeepsValue ==
  call.op = "alpha_beta_search" =>
    /\ call.v = GameValue(heap[state].squares, call.max_p)
    /\ Occupied(heap[state].squares) = 0 => call.v = 0

\* the search was run for player 1 to move on a state where player 0 can force a win
C10_Witness ==
  /\ call.op = "alpha_beta_search"
  /\ ~call.max_p
  /\ ~Terminal(heap[state])
  /\ call.v = 1

\* C11: a call of minimax on a terminal state returns at once, with 1 on a win,
\* else -1 on a loss, else 0 on a tie, and asks the state for no successor;
\* no search of select_move raises the exception of generate_successor
C11_TerminalShortcut ==
  call.op = "select_move_calls" =>
    /\ call.raised = "none"
    /\ \A c \in call.calls :
         (c.win \/ c.lose \/ c.tie) =>
           /\ ~c.generated
           /\ c.v = IF c.win THEN 1 ELSE IF c.lose THEN -1 ELSE 0

\* searches that met a won, a lost and a tied state below their top call
C11_Witness ==
  /\ call.op = "select_move_calls"
  /\ \E c \in call.calls : c.depth >= 1 /\ c.win
  /\ \E c \in call.calls : c.depth >= 1 /\ c.lose
  /\ \E c \in call.calls : c.depth >= 1 /\ c.tie /\ ~c.win /\ ~c.lose
  /\ \E c \in call.calls : c.generated

\* the value the search gives the state that index reaches by moving at p
SuccessorValue(d, index, p) ==
  alpha_beta_search(apply_action(d, index, p).data, index = 1)

\* C12: on a non-terminal state select_move returns the lowest legal position
\* among those whose successor has the largest search value (player 0) or the
\* smallest search value (player 1): a later move of equal value never
\* replaces it
C12_LowestBestMove ==
  (call.op = "select_move" /\ ~Terminal(heap[state])) =>
    LET sq == heap[state].squares
        value == [p \in EmptySet(sq) |-> SuccessorValue(heap[state], call.agent, p)]
        best == IF call.agent = 0
                THEN CHOOSE v \in {value[p] : p \in EmptySet(sq)} :
                       \A p \in EmptySet(sq) : value[p] <= v
                ELSE CHOOSE v \in {value[p] : p \in EmptySet(sq)} :
                       \A p \in EmptySet(sq) : value[p] >= v
    IN  /\ call.pos \in EmptySet(sq)
        /\ value[call.pos] = best
        /\ \A q \in EmptySet(sq) : q < call.pos => value[q] # best

\* player 1 chose among several best moves, with a worse move before them
C12_Witness ==
  /\ call.op = "select_move"
  /\ call.agent = 1
  /\ ~Terminal(heap[state])
  /\ LET sq == heap[state].squares
         value == [p \in EmptySet(sq) |-> SuccessorValue(heap[state], 1, p)]
     IN  /\ call.pos \in EmptySet(sq)
         /\ \E q \in EmptySet(sq) : q > call.pos /\ value[q] = value[call.pos]
         /\ \E q \in EmptySet(sq) : q < call.pos /\ value[q] > value[call.pos]

\* pos is a legal move of d: d is not terminal and the cell at pos is EMPTY
LegalAt(d, pos) == ~Terminal(d) /\ pos \in EmptySet(d.squares)

C14_HistoryRecordsMoves ==
  players # <<>> =>
    /\ Len(move_history) = num_moves
    /\ \A i \in 1..Len(move_history) :
         /\ move_history[i].agent = (i - 1) % 2
         /\ heap[state].squares[move_history[i].pos] = move_history[i].agent + 1

\* the number of cells holding mark m
Count(sq, m) == Cardinality({i \in Pos : sq[i] = m})

\* C17: in every state game_loop reaches from the empty board with player1 of
\* index 0 and player2 of index 1, PLAYER_A holds as many cells as PLAYER_B
\* or one more
C17_MarksAlternate ==
  players # <<>> =>
    Count(heap[state].squares, PLAYER_A) - Count(heap[state].squares, PLAYER_B) \in {0, 1}

\* after three moves an iteration left the board as it was, PLAYER_A one ahead
C17_Witness ==
  /\ players # <<>>
  /\ call.op = "game_loop"
  /\ ~call.applied
  /\ num_moves = 3
  /\ current_turn = 2
  /\ Count(heap[state].squares, PLAYER_A) = 2
  /\ Count(heap[state].squares, PLAYER_B) = 1

\* C18: within one search made by select_move the max_p of every call of
\* minimax, at any depth, equals the index of the acting player
C18_FlagConstant ==
  call.op = "select_move_calls" =>
    \A c \in call.calls : c.max_p = (call.agent = 1)

\* C18, amended: the top call of a search made by select_move has max_p equal
\* to the index of the acting player, and max_p alternates with the depth of
\* the recursion: at depth k it is true exactly when index + k is odd
C18_FlagAlternates ==
  call.op = "select_move_calls" =>
    \A c \in call.calls : c.max_p = ((call.agent + c.depth) % 2 = 1)

\* searches of player 0 that went three calls deep
C18_Witness ==
  /\ call.op = "select_move_calls"
  /\ call.agent = 0
  /\ \E c \in call.calls : c.depth = 0 /\ ~c.max_p /\ c.generated
  /\ \E c \in call.calls : c.depth = 1 /\ c.max_p /\ c.generated
  /\ \E c \in call.calls : c.depth = 2 /\ ~c.max_p

\* the children of node n, as a set
Children(ns, n) == {ns[n].children[i] : i \in 1..Len(ns[n].children)}

\* the search has ended, by a return or by an exception
Ended == search.pc \in {"done", "raised"}

\* C15: for a non-terminal root and at least one iteration the search returns
\* a child of the root whose visits are the most among the root's children,
\* and whose pos is a legal move of the root's state
C15_ReturnsMostVisitedChild ==
  (Ended /\ search.iterations >= 1 /\ ~Terminal(heap[nodes[1].state])) =>
    /\ search.raised = "none"
    /\ search.ret \in Children(nodes, 1)
    /\ \A ch \in Children(nodes, 1) : nodes[search.ret].visits >= nodes[ch].visits
    /\ LegalAt(heap[nodes[1].state], nodes[search.ret].pos)

\* C16: after all iterations the search returns the first child of the root,
\* in the order the children were added, whose wins/visits is the largest
C16_ReturnsBestRatioChild ==
  (Ended /\ search.iterations >= 1) =>
    /\ search.raised = "none"
    /\ \E i \in 1..Len(nodes[1].children) :
         LET r == nodes[nodes[1].children[i]]
         IN  /\ search.ret = nodes[1].children[i]
             /\ \A j \in 1..Len(nodes[1].children) :
                  LET o == nodes[nodes[1].children[j]]
                  IN  /\ o.wins * r.visits <= r.wins * o.visits
                      /\ j < i => o.wins * r.visits < r.wins * o.visits

\* C19: a round of the selection at a non-terminal node expands the node only
\* if it has no child and otherwise descends by best_child, so that no node
\* of the tree ever has more than one child
C19_ExpandsChildlessOnly ==
  [][(search.pc = "while" /\ ~Terminal(heap[nodes[search.node].state]))
     => (/\ Len(nodes[search.node].children) = 0 => call'.op = "mcts_expand"
         /\ Len(nodes[search.node].children) > 0 =>
              (call'.op = "best_child" /\ nodes' = nodes)
         /\ \A m \in 1..Len(nodes') : Len(nodes'[m].children) <= 1)]_vars

C21_RolloutAlternates ==
  call.op = "mcts_simulate" =>
    \A i \in 1..(Len(call.made) - 1) : call.made[i].agent # call.made[i + 1].agent

\* C22: every call of mcts_simulate returns, with 1 if the playout ended in
\* a win, -1 if in a loss, 0 if in a tie, and leaves the state it was given
\* as it was
C22_SimulateReturnsOutcome ==
  [][call'.op = "mcts_simulate"
     => (/\ call'.raised = "none"
         /\ call'.v = (IF call'.end.win THEN 1 ELSE IF call'.end.lose THEN -1 ELSE 0)
         /\ \A x \in DOMAIN heap : heap'[x] = heap[x])]_vars

\* the nodes from n up to the root, following parent
RECURSIVE Chain(_, _)
Chain(ns, n) == IF n = None THEN {} ELSE {n} \cup Chain(ns, ns[n].parent)

\* C23: one call mcts_backpropagate(node, r) with r in {1, 0, -1} adds 1 to
\* visits and r to wins of every node from node up to the root, the root
\* included, and leaves visits and wins of every other node as they were
C23_BackpropagateUpdatesChain ==
  [][call'.op = "mcts_backpropagate"
     => LET chain == Chain(nodes, call'.recv)
        IN  /\ 1 \in chain
            /\ Len(nodes') = Len(nodes)
            /\ \A m \in 1..Len(nodes) :
                 IF m \in chain
                 THEN /\ nodes'[m].visits = nodes[m].visits + 1
                      /\ nodes'[m].wins = nodes[m].wins + call'.v
                 ELSE /\ nodes'[m].visits = nodes[m].visits
                      /\ nodes'[m].wins = nodes[m].wins]_vars

\* a loss was propagated from a child of the root, whose other child was
\* visited before and is not on the way
C23_Witness ==
  /\ call.op = "mcts_backpropagate"
  /\ call.v = -1
  /\ nodes[call.recv].parent = 1
  /\ nodes[call.recv].wins = -1
  /\ nodes[1].visits = 2
  /\ \E m \in 1..Len(nodes) : m \notin Chain(nodes, call.recv) /\ nodes[m].visits = 1

\* the state of the node the selection of the running search has reached
Reached == heap[nodes[search.node].state]

\* C24: an iteration of the search whose simulation ends in a win for the
\* acting player adds to the visits of the root the number of nodes from the
\* simulated node up to the root, the root included, and adds 1 to the wins
\* of every one of these nodes
C24_WinAddsPathLength ==
  [][(/\ search.pc = "while"
      /\ Terminal(Reached)
      /\ IF search.index = 0 THEN is_win(Reached)
         ELSE is_lose(Reached) /\ ~is_win(Reached))
     => LET chain == Chain(nodes, search.node)
        IN  /\ nodes'[1].visits = nodes[1].visits + Cardinality(chain)
            /\ \A m \in chain : nodes'[m].wins = nodes[m].wins + 1]_vars

\* what the playout that ended in d is worth to player 0
Outcome(d) == IF is_win(d) THEN 1 ELSE IF is_lose(d) THEN -1 ELSE 0

\* C25: the search adds to the wins of every node from the simulated node up
\* to the root the result of the playout as the acting player sees it: for
\* index 1 a loss of player 0 adds 1 and a win of player 0 adds -1, for index
\* 0 the signs are the opposite, a tie adds 0 for both
C25_ResultFromActingPlayer ==
  [][(search.pc = "while" /\ Terminal(Reached))
     => \A m \in Chain(nodes, search.node) :
          nodes'[m].wins = nodes[m].wins
            + (IF search.index = 1 THEN -Outcome(Reached) ELSE Outcome(Reached))]_vars

\* C26: in every step of a search no node's visits decrease, visits and wins
\* of an existing node change in the backpropagation only (not in selection,
\* expansion or simulation), and a node made in the step has visits and wins 0
C26_CountsChangeInBackpropagationOnly ==
  [][search'.pc # "idle"
     => (/\ Len(nodes') >= Len(nodes)
         /\ \A m \in 1..Len(nodes) :
              /\ nodes'[m].visits >= nodes[m].visits
              /\ (nodes'[m].visits # nodes[m].visits \/ nodes'[m].wins # nodes[m].wins)
                   => call'.op = "mcts_backpropagate"
         /\ \A m \in (Len(nodes) + 1)..Len(nodes') :
              nodes'[m].visits = 0 /\ nodes'[m].wins = 0)]_vars

\* the search expanded a node of a tree whose nodes hold visits and wins
C26_Witness ==
  /\ call.op = "mcts_expand"
  /\ call.kind = "monte_carlo_tree_search"
  /\ search.pc = "while"
  /\ nodes[1].visits = 2
  /\ nodes[call.recv].visits >= 1
  /\ nodes[call.recv].wins # 0
  /\ nodes[Len(nodes)].parent = call.recv
  /\ nodes[Len(nodes)].visits = 0

\* C27: select_move of the minimax player, with its searches, and select_move
\* of the Monte Carlo player, from the making of the root through expansion
\* and playout to the end of the search, leave the cells and the flags of
\* the state they are given as they were
C27_SelectMoveKeepsState ==
  [][(call'.op \in {"select_move_calls", "Node"} \/ search'.pc # "idle")
     => heap'[state] = heap[state]]_vars

\* a search of the Monte Carlo player on a board with four marks went through
\* three expansions and a playout
C27_Witness ==
  /\ call.op = "mcts_simulate"
  /\ call.kind = "monte_carlo_tree_search"
  /\ nodes[1].state = state
  /\ Len(nodes) = 4
  /\ Occupied(heap[state].squares) = 4
  /\ Occupied(heap[nodes[4].state].squares) = 7

\* no call of minimax lies deeper below the top call of its search than the
\* state given to the search has EMPTY cells; the search is given a successor
\* of the state select_move is called on
MinimaxDepthBounded ==
  call.op = "select_move_calls" =>
    /\ call.raised = "none"
    /\ \A c \in call.calls : c.depth <= Cardinality(EmptySet(heap[state].squares)) - 1

\* the selection of the running search is at most 9 nodes below the root and
\* a playout made at most 9 moves
LoopsBounded ==
  /\ search.pc = "while" => Cardinality(Chain(nodes, search.node)) - 1 <= 9
  /\ call.op = "mcts_simulate" => Len(call.made) <= 9

\* C28: both searches run to completion: the recursion of minimax is no
\* deeper than the number of EMPTY cells of its input, and
\* monte_carlo_tree_search makes the requested number of iterations, with
\* selection and playout of at most 9 steps each, and then returns
C28_SearchesRunToCompletion ==
  /\ MinimaxDepthBounded
  /\ LoopsBounded
  /\ Ended => (search.pc = "done" /\ search.i = search.iterations)

\* C29: result tests is_win, then is_lose, then is_tie: on a terminal state it
\* returns 1 if is_win is true, whatever the other flags, else -1 if is_lose
\* is true, else 0; on a state that is not terminal it raises and returns
\* nothing
C29_ResultCheckOrder ==
  call.op = "result" =>
    LET d == heap[state]
    IN  IF d.win THEN call.raised = "none" /\ call.v = 1
        ELSE IF d.lose THEN call.raised = "none" /\ call.v = -1
        ELSE IF d.tie THEN call.raised = "none" /\ call.v = 0
        ELSE call.raised = "ValueError"

\* the result of a full board that holds a triple of PLAYER_A: is_win and
\* is_tie are both true
C29_Witness ==
  /\ call.op = "result"
  /\ heap[state].win
  /\ heap[state].tie
  /\ ~heap[state].lose
  /\ call.v = 1

\* C30: a game of game_loop from the empty board with a minimax player on one
\* side and any legal moves on the other never ends with a loss of the
\* minimax side: with the minimax player as player 0 is_lose is never true,
\* with the minimax player as player 1 PLAYER_A never holds a triple
C30_MinimaxNeverLoses ==
  players # <<>> =>
    /\ players[1] = "minimax" => ~is_lose(heap[state])
    /\ players[2] = "minimax" => ~HasTriple(heap[state].squares, PLAYER_A)

\* a game between a random player and the minimax player as player 1 that
\* the minimax player won
C30_Witness ==
  /\ players = <<"random", "minimax">>
  /\ call.op = "game_loop"
  /\ is_lose(heap[state])
  /\ HasTriple(heap[state].squares, PLAYER_B)
  /\ num_moves = 6

\* num_moves counts the occupied cells and player 1 is to move exactly when
\* it is even
MovesCounted(sq, moves, turn) ==
  /\ moves = Occupied(sq)
  /\ (turn = 1) <=> (moves % 2 = 0)

\* C31: an iteration of game_loop passes the turn and adds 1 to num_moves if
\* and only if the call of the controller changed the cells, and leaves both
\* as they were otherwise; before and after every iteration num_moves is the
\* number of occupied cells and current_turn is 1 exactly when num_moves is
\* even; no controller is asked for a move on a terminal state
C31_TurnPassesIffBoardChanged ==
  [][call'.op = "game_loop"
     => (/\ ~Terminal(heap[state])
         /\ IF heap'[state].squares # heap[state].squares
            THEN /\ current_turn' = 3 - current_turn
                 /\ num_moves' = num_moves + 1
            ELSE /\ current_turn' = current_turn
                 /\ num_moves' = num_moves
         /\ MovesCounted(heap[state].squares, num_moves, current_turn)
         /\ MovesCounted(heap'[state].squares, num_moves', current_turn'))]_vars

\* a human asked as player 1 after two moves chose no legal cell: the turn
\* stayed
C31_Witness ==
  /\ players # <<>>
  /\ call.op = "game_loop"
  /\ call.kind = "human"
  /\ ~call.applied
  /\ num_moves = 2
  /\ current_turn = 1
  /\ Occupied(heap[state].squares) = 2

\* C32: with random or minimax controllers on both sides, every iteration of
\* game_loop from the empty board applies one legal move, so that num_moves
\* counts the iterations; the loop goes on after fewer than 9 iterations
\* only, and stops, in a terminal state, after at least 5 and at most 9;
\* result() then returns 1, 0 or -1 without raising
C32_AutoGameTerminates ==
  /\ [][call'.op = "game_loop"
        => (/\ call'.raised = "none"
            /\ call'.applied
            /\ LegalAt(heap[state], call'.pos)
            /\ heap'[state].squares =
                 [heap[state].squares EXCEPT ![call'.pos] = current_turn]
            /\ num_moves' = num_moves + 1)]_vars
  /\ [](players # <<>> /\ Terminal(heap[state]) => num_moves \in 5..9)
  /\ [](players # <<>> /\ ~Terminal(heap[state]) => num_moves < 9)
  /\ [](call.op = "result" => call.raised = "none" /\ call.v \in {1, 0, -1})

\* the minimax player as player 1 won against a random player in five moves
C32_Witness ==
  /\ players = <<"minimax", "random">>
  /\ call.op = "result"
  /\ call.raised = "none"
  /\ call.v = 1
  /\ num_moves = 5

\* the visits of the children of node n from child i on, added up
RECURSIVE ChildVisits(_, _, _)
ChildVisits(ns, n, i) ==
  IF i > Len(ns[n].children) THEN 0
  ELSE ns[ns[n].children[i]].visits + ChildVisits(ns, n, i + 1)

\* C33: between the iterations of monte_carlo_tree_search on a new root and
\* once it has ended, the root's visit_count is the number of completed
\* iterations, no node has fewer visits than its children together, and every
\* node below the root has at least one visit
C33_VisitCountsFollowIterations ==
  search.pc \in {"for", "done", "raised"} =>
    /\ nodes[1].visits = search.i
    /\ \A n \in 1..Len(nodes) :
         /\ nodes[n].visits >= ChildVisits(nodes, n, 1)
         /\ n # 1 => nodes[n].visits >= 1

\* C34: whenever monte_carlo_tree_search calls best_child on a node with
\* children, in the selection or for the final choice, the node and each of
\* its children have at least one visit and the call does not raise
C34_BestChildNeverDividesByZero ==
  [][(call'.op = "best_child" /\ call'.kind = "monte_carlo_tree_search"
        /\ Len(nodes[call'.recv].children) > 0)
     => (/\ call'.raised = "none"
         /\ nodes[call'.recv].visits >= 1
         /\ \A i \in 1..Len(nodes[call'.recv].children) :
              nodes[nodes[call'.recv].children[i]].visits >= 1)]_vars

\* the number of nodes above node n
Depth(ns, n) == Cardinality(Chain(ns, n)) - 1

\* C35: in the tree of a search every node below the root holds the state of
\* its parent with one more mark, at the node's move, and along every path
\* from the root the marks are those of the acting player and of the opponent
\* in turn, the acting player's first
C35_TreeStatesAlternate ==
  search.pc # "idle" =>
    \A n \in 2..Len(nodes) :
      LET d == heap[nodes[n].state]
          up == heap[nodes[nodes[n].parent].state]
          mover == (search.index + Depth(nodes, n) - 1) % 2
      IN  /\ up.squares[nodes[n].pos] = EMPTY
          /\ d.squares = [up.squares EXCEPT ![nodes[n].pos] = mover + 1]

====
